---- MODULE Spec2Model ----
(***************************************************************************)
(* p5.SimpleUI: the widgets of p5.SimpleUI.js (TextArea, InputBox, Slider,  *)
(* FilePicker) as a state machine.  A string is a sequence of one-character *)
(* strings; the cursor (cursorX, cursorY) is 0-based as in the source,      *)
(* sequences are 1-based.  A number of the Slider is a fraction <<n, d>>    *)
(* in lowest terms with d > 0.                                              *)
(***************************************************************************)
EXTENDS Integers, Sequences, FiniteSets, TLC

\* ------------------------------------------------------------- bounds
\* Longest text (characters, line breaks included) the model builds.
MaxLen == 3
\* The host clock p.millis() advances in steps of TickMs up to MaxMillis.
TickMs == 250
MaxMillis == 1250

\* ------------------------------------------------------- host values
NL == "\n"
Null == "null"
Chars == {"a", "b"}
Callbacks == {"f", "g"}
NamedKeys == {"ENTER", "BACKSPACE", "LEFT_ARROW", "RIGHT_ARROW", "UP_ARROW",
              "DOWN_ARROW", "SHIFT"}
Keys == NamedKeys \cup Chars
\* p.key.length === 1 holds for a printable key only ("Enter", "Shift", ... are longer).
KeyLengthIsOne(k) == k \in Chars

\* Every text of at most MaxLen characters, line breaks included.
Strings == UNION {[1..n -> Chars \cup {NL}] : n \in 0..MaxLen}

\* The texts given to the TextArea constructor and to setText: empty, one
\* line, and line breaks leading, trailing, between characters and in a row.
Texts == {<<>>, <<"a">>, <<"a", "b">>, <<NL>>, <<"a", NL>>, <<NL, "b">>,
          <<"a", NL, "b">>, <<"b", "a", NL>>, <<NL, NL>>, <<NL, "a", NL>>}

\* The texts given to the InputBox constructor.
Words == {<<>>, <<"a">>, <<"a", "b">>}

Min(a, b) == IF a < b THEN a ELSE b
Max(a, b) == IF a > b THEN a ELSE b

\* p.constrain(n, low, high) of the host: Math.max(Math.min(n, high), low).
Constrain(n, low, high) == Max(Min(n, high), low)

\* p.textWidth(ch): every character measures 10px.
TextWidth(ch) == 10

\* String.prototype.substring(a, b): both indices clamped to [0, length],
\* swapped when a > b; characters a .. b-1 (0-based).
Substring(s, a, b) ==
  LET ca == Constrain(a, 0, Len(s))
      cb == Constrain(b, 0, Len(s))
  IN SubSeq(s, Min(ca, cb) + 1, Max(ca, cb))

SubstringFrom(s, a) == Substring(s, a, Len(s))

\* Split dropping a trailing empty piece.
RECURSIVE Split_dropsTrailingEmpty(_)
Split_dropsTrailingEmpty(s) ==
  IF \A i \in 1..Len(s) : s[i] # NL
  THEN <<s>>
  ELSE LET i == CHOOSE i \in 1..Len(s) : s[i] = NL /\ \A j \in 1..(i - 1) : s[j] # NL
       IN IF i = Len(s) THEN <<SubSeq(s, 1, i - 1)>>
          ELSE <<SubSeq(s, 1, i - 1)>> \o Split_dropsTrailingEmpty(SubSeq(s, i + 1, Len(s)))

\* String.prototype.split('\n').
RECURSIVE Split(_)
Split(s) ==
  IF \A i \in 1..Len(s) : s[i] # NL
  THEN <<s>>
  ELSE LET i == CHOOSE i \in 1..Len(s) : s[i] = NL /\ \A j \in 1..(i - 1) : s[j] # NL
       IN <<SubSeq(s, 1, i - 1)>> \o Split(SubSeq(s, i + 1, Len(s)))

\* Array.prototype.join('\n').
RECURSIVE Join(_)
Join(ls) ==
  IF Len(ls) = 0 THEN <<>>
  ELSE IF Len(ls) = 1 THEN ls[1]
  ELSE ls[1] \o <<NL>> \o Join(Tail(ls))

\* Array.prototype.splice(at, 0, item) and splice(at, 1), at 0-based.
SpliceIn(ls, at, item) == SubSeq(ls, 1, at) \o <<item>> \o SubSeq(ls, at + 1, Len(ls))
SpliceOut(ls, at) == SubSeq(ls, 1, at) \o SubSeq(ls, at + 2, Len(ls))

\* ---------------------------------------------------------- TextArea
TA_x == 10
TA_y == 10
TA_w == 60
TA_h == 30
lineHeight == 20
TA_padding == 5

VARIABLES
  widget,     \* the widget the sketch created: "TextArea", "InputBox", "Slider",
              \* "FilePicker", "RadioButton", "TextWidgets"
  ta,         \* the TextArea's fields
  ib,         \* the InputBox's fields
  sl,         \* the Slider's fields
  millis,     \* the host clock p.millis()
  lastOp,     \* the last call made on the widget, with its inputs
  fired,      \* the callback invocations made during the last call
  registered, \* the callback most recently given to setOnInput / setOnChange
  fp,         \* the FilePicker's fields
  selections, \* the FilePicker's selections that started decoding, in order
  rb,         \* the RadioButton group's fields
  group       \* the text widgets of a sketch that creates several, in order

vars ==
  <<widget, ta, ib, sl, millis, lastOp, fired, registered, fp, selections, rb, group>>

Op(name, key, mx, my, arg) ==
  [op |-> name, key |-> key, mx |-> mx, my |-> my, arg |-> arg]

\* TextArea constructor.
TA_new(defaultText) ==
  [text |-> defaultText, lines |-> <<defaultText>>, isFocused |-> FALSE,
   onInput |-> Null, cursorX |-> 0, cursorY |-> 0, scrollY |-> 0]

\* lines[cursorY] of the source.
CurLine(t) == t.lines[t.cursorY + 1]

TA_inside(mx, my) ==
  mx > TA_x /\ mx < TA_x + TA_w /\ my > TA_y /\ my < TA_y + TA_h

\* TA_hitColumn stopping before the character that crosses the target.
RECURSIVE TA_hitColumn_leftEdge(_, _, _, _)
TA_hitColumn_leftEdge(line, cx, lw, x) ==
  IF cx < Len(line) /\ lw + TextWidth(line[cx + 1]) <= x
  THEN TA_hitColumn_leftEdge(line, cx + 1, lw + TextWidth(line[cx + 1]), x)
  ELSE cx

\* The column loop of handleClick: cx is cursorX, lw is lineWidth, x the target.
RECURSIVE TA_hitColumn(_, _, _, _)
TA_hitColumn(line, cx, lw, x) ==
  IF cx < Len(line) /\ lw < x
  THEN TA_hitColumn(line, cx + 1, lw + TextWidth(line[cx + 1]), x)
  ELSE cx

\* TA_handleClick taking the row from the pointer alone, without scrollY.
TA_handleClick_noScroll(t, mx, my) ==
  LET focus == TA_inside(mx, my)
      y == (my - TA_y) \div lineHeight
      row == Constrain(y, 0, Len(t.lines) - 1)
      x == mx - TA_x - TA_padding
  IN IF focus
     THEN [t EXCEPT !.isFocused = TRUE, !.cursorY = row,
                    !.cursorX = TA_hitColumn(t.lines[row + 1], 0, 0, x)]
     ELSE [t EXCEPT !.isFocused = FALSE]

TA_handleClick(t, mx, my) ==
  LET focus == TA_inside(mx, my)
      y == (my - TA_y + t.scrollY) \div lineHeight
      row == Constrain(y, 0, Len(t.lines) - 1)
      x == mx - TA_x - TA_padding
  IN IF focus
     THEN [t EXCEPT !.isFocused = TRUE, !.cursorY = row,
                    !.cursorX = TA_hitColumn(t.lines[row + 1], 0, 0, x)]
     ELSE [t EXCEPT !.isFocused = FALSE]

\* TA_enter splicing the right part in above the cut line.
TA_enter_above(t) ==
  LET rightPart == SubstringFrom(CurLine(t), t.cursorX)
      cut == [t.lines EXCEPT ![t.cursorY + 1] = Substring(CurLine(t), 0, t.cursorX)]
  IN [t EXCEPT !.lines = SpliceIn(cut, t.cursorY, rightPart),
               !.cursorY = t.cursorY + 1, !.cursorX = 0]

\* The branches of handleKeyPress.
TA_enter(t) ==
  LET rightPart == SubstringFrom(CurLine(t), t.cursorX)
      cut == [t.lines EXCEPT ![t.cursorY + 1] = Substring(CurLine(t), 0, t.cursorX)]
  IN [t EXCEPT !.lines = SpliceIn(cut, t.cursorY + 1, rightPart),
               !.cursorY = t.cursorY + 1, !.cursorX = 0]

\* TA_backspace taking the join column after the lines are joined.
TA_backspace_lateColumn(t) ==
  IF t.cursorX > 0
  THEN [t EXCEPT !.lines[t.cursorY + 1] =
                    Substring(CurLine(t), 0, t.cursorX - 1) \o SubstringFrom(CurLine(t), t.cursorX),
                 !.cursorX = t.cursorX - 1]
  ELSE IF t.cursorY > 0
  THEN LET joined == [t.lines EXCEPT ![t.cursorY] = t.lines[t.cursorY] \o CurLine(t)]
       IN [t EXCEPT !.cursorX = Len(joined[t.cursorY]),
                    !.lines = SpliceOut(joined, t.cursorY),
                    !.cursorY = t.cursorY - 1]
  ELSE t

TA_backspace(t) ==
  IF t.cursorX > 0
  THEN [t EXCEPT !.lines[t.cursorY + 1] =
                    Substring(CurLine(t), 0, t.cursorX - 1) \o SubstringFrom(CurLine(t), t.cursorX),
                 !.cursorX = t.cursorX - 1]
  ELSE IF t.cursorY > 0
  THEN LET joined == [t.lines EXCEPT ![t.cursorY] = t.lines[t.cursorY] \o CurLine(t)]
       IN [t EXCEPT !.cursorX = Len(t.lines[t.cursorY]),
                    !.lines = SpliceOut(joined, t.cursorY),
                    !.cursorY = t.cursorY - 1]
  ELSE t

\* TA_left wrapping to the start of the previous line.
TA_left_wrapsToStart(t) ==
  IF t.cursorX > 0 THEN [t EXCEPT !.cursorX = t.cursorX - 1]
  ELSE IF t.cursorY > 0
  THEN [t EXCEPT !.cursorY = t.cursorY - 1, !.cursorX = 0]
  ELSE t

TA_left(t) ==
  IF t.cursorX > 0 THEN [t EXCEPT !.cursorX = t.cursorX - 1]
  ELSE IF t.cursorY > 0
  THEN [t EXCEPT !.cursorY = t.cursorY - 1, !.cursorX = Len(t.lines[t.cursorY])]
  ELSE t

\* TA_right with the end-of-line test off by one.
TA_right_pastEnd(t) ==
  IF t.cursorX <= Len(CurLine(t)) THEN [t EXCEPT !.cursorX = t.cursorX + 1]
  ELSE IF t.cursorY < Len(t.lines) - 1
  THEN [t EXCEPT !.cursorY = t.cursorY + 1, !.cursorX = 0]
  ELSE t

TA_right(t) ==
  IF t.cursorX < Len(CurLine(t)) THEN [t EXCEPT !.cursorX = t.cursorX + 1]
  ELSE IF t.cursorY < Len(t.lines) - 1
  THEN [t EXCEPT !.cursorY = t.cursorY + 1, !.cursorX = 0]
  ELSE t

TA_up(t) ==
  IF t.cursorY > 0
  THEN [t EXCEPT !.cursorY = t.cursorY - 1,
                 !.cursorX = Min(t.cursorX, Len(t.lines[t.cursorY]))]
  ELSE t

\* TA_down keeping the column whatever the length of the line below.
TA_down_noClamp(t) ==
  IF t.cursorY < Len(t.lines) - 1
  THEN [t EXCEPT !.cursorY = t.cursorY + 1]
  ELSE t

TA_down(t) ==
  IF t.cursorY < Len(t.lines) - 1
  THEN [t EXCEPT !.cursorY = t.cursorY + 1,
                 !.cursorX = Min(t.cursorX, Len(t.lines[t.cursorY + 2]))]
  ELSE t

TA_insert(t, ch) ==
  [t EXCEPT !.lines[t.cursorY + 1] =
               Substring(CurLine(t), 0, t.cursorX) \o <<ch>> \o SubstringFrom(CurLine(t), t.cursorX),
            !.cursorX = t.cursorX + 1]

TA_edit(t, k) ==
  IF k = "ENTER" THEN TA_enter(t)
  ELSE IF k = "BACKSPACE" THEN TA_backspace(t)
  ELSE IF k = "LEFT_ARROW" THEN TA_left(t)
  ELSE IF k = "RIGHT_ARROW" THEN TA_right(t)
  ELSE IF k = "UP_ARROW" THEN TA_up(t)
  ELSE IF k = "DOWN_ARROW" THEN TA_down(t)
  ELSE IF KeyLengthIsOne(k) THEN TA_insert(t, k)
  ELSE t

\* TA_updateScroll aligning the cursor's line with the viewport's bottom
\* without testing where the line is.
TA_updateScroll_bottomAlways(t) ==
  [t EXCEPT !.scrollY = (t.cursorY + 1) * lineHeight - TA_h]

\* "Update scroll position".
TA_updateScroll(t) ==
  IF t.cursorY * lineHeight < t.scrollY
  THEN [t EXCEPT !.scrollY = t.cursorY * lineHeight]
  ELSE IF (t.cursorY + 1) * lineHeight > t.scrollY + TA_h
  THEN [t EXCEPT !.scrollY = (t.cursorY + 1) * lineHeight - TA_h]
  ELSE t

\* TA_handleKeyPress without the early return of an unfocused widget.
TA_handleKeyPress_noFocusTest(t, k) ==
  LET s == TA_updateScroll(TA_edit(t, k))
  IN [s EXCEPT !.text = Join(s.lines)]

\* handleKeyPress: the widget after the call.
TA_handleKeyPress(t, k) ==
  IF ~t.isFocused THEN t
  ELSE LET s == TA_updateScroll(TA_edit(t, k))
       IN [s EXCEPT !.text = Join(s.lines)]

\* TA_keyFired calling back before the edit is applied.
TA_keyFired_stale(t, k) ==
  IF t.isFocused /\ t.onInput # Null
  THEN <<[cb |-> t.onInput, arg |-> t.text]>>
  ELSE <<>>

\* handleKeyPress: the onInput invocations of the call.
TA_keyFired(t, k) ==
  IF t.isFocused /\ t.onInput # Null
  THEN <<[cb |-> t.onInput, arg |-> TA_handleKeyPress(t, k).text]>>
  ELSE <<>>

TA_getText(t) == t.text

\* TA_setText that does not split the new text into lines.
TA_setText_keepsLines(t, s) == [t EXCEPT !.text = s]

TA_setText(t, s) ==
  LET ls == Split(s)
  IN [t EXCEPT !.text = s, !.lines = ls,
               !.cursorX = Len(ls[Len(ls)]), !.cursorY = Len(ls) - 1]

\* TA_setOnInput keeping a callback that is already registered.
TA_setOnInput_keepsFirst(t, cb) ==
  IF t.onInput = Null THEN [t EXCEPT !.onInput = cb] ELSE t

TA_setOnInput(t, cb) == [t EXCEPT !.onInput = cb]

\* TA_display bringing the cursor's line into view while drawing.
TA_display_scrolls(t) == TA_updateScroll(t)

\* TextArea.display draws from the fields and assigns none of them; the caret
\* is drawn from lines[cursorY] when the widget is focused.
TA_display(t) == t

\* ---------------------------------------------------------- InputBox
IB_x == 10
IB_y == 10
IB_w == 60
IB_h == 30
blinkInterval == 500

\* InputBox constructor.
IB_new(defaultText) ==
  [text |-> defaultText, isFocused |-> FALSE, onInput |-> Null,
   cursorVisible |-> TRUE, lastBlink |-> 0]

\* IB_inside counting the edges as inside.
IB_inside_edges(mx, my) ==
  mx >= IB_x /\ mx <= IB_x + IB_w /\ my >= IB_y /\ my <= IB_y + IB_h

IB_inside(mx, my) ==
  mx > IB_x /\ mx < IB_x + IB_w /\ my > IB_y /\ my < IB_y + IB_h

\* IB_handleClick of a box that keeps its focus on a click outside it.
IB_handleClick_keepsFocus(b, mx, my) ==
  [b EXCEPT !.isFocused = b.isFocused \/ IB_inside(mx, my)]

IB_handleClick(b, mx, my) == [b EXCEPT !.isFocused = IB_inside(mx, my)]

\* handleKeyPress: the widget after the call.
IB_handleKeyPress(b, k) ==
  IF ~b.isFocused THEN b
  ELSE IF k = "BACKSPACE"
  THEN IF Len(b.text) > 0 THEN [b EXCEPT !.text = SubSeq(b.text, 1, Len(b.text) - 1)] ELSE b
  ELSE IF k = "ENTER" THEN [b EXCEPT !.isFocused = FALSE]
  ELSE IF KeyLengthIsOne(k) THEN [b EXCEPT !.text = b.text \o <<k>>]
  ELSE b

\* handleKeyPress: the onInput invocations of the call.
IB_keyFired(b, k) ==
  IF b.isFocused /\ b.onInput # Null
  THEN <<[cb |-> b.onInput, arg |-> IB_handleKeyPress(b, k).text]>>
  ELSE <<>>

\* display at clock reading now: only the caret blink is assigned.
IB_display(b, now) ==
  IF b.isFocused /\ now - b.lastBlink > blinkInterval
  THEN [b EXCEPT !.cursorVisible = ~b.cursorVisible, !.lastBlink = now]
  ELSE b

IB_getText(b) == b.text

IB_setOnInput(b, cb) == [b EXCEPT !.onInput = cb]

\* ------------------------------------------------------------ Slider
\* Fractions.
RECURSIVE Gcd(_, _)
Gcd(a, b) == IF b = 0 THEN a ELSE Gcd(b, a % b)
Abs(n) == IF n < 0 THEN -n ELSE n
\* n / d in lowest terms with a positive denominator (d # 0).
Q(n, d) ==
  LET g == Gcd(Abs(n), Abs(d))
  IN IF d > 0 THEN <<n \div g, d \div g>> ELSE <<(-n) \div g, (-d) \div g>>
QInt(k) == <<k, 1>>
QAdd(a, b) == Q(a[1] * b[2] + b[1] * a[2], a[2] * b[2])
QSub(a, b) == Q(a[1] * b[2] - b[1] * a[2], a[2] * b[2])
QMul(a, b) == Q(a[1] * b[1], a[2] * b[2])
QDiv(a, b) == Q(a[1] * b[2], a[2] * b[1])
QLt(a, b) == a[1] * b[2] < b[1] * a[2]
QLe(a, b) == a[1] * b[2] <= b[1] * a[2]

\* Math.round: the nearest integer, a half rounded up.
QRound(a) == QInt((2 * a[1] + a[2]) \div (2 * a[2]))

\* p.constrain on fractions: Math.max(Math.min(n, high), low).
QConstrain(n, low, high) ==
  LET m == IF QLt(n, high) THEN n ELSE high
  IN IF QLt(low, m) THEN m ELSE low

\* p.map(n, start1, stop1, start2, stop2) of the host.
QMap(n, start1, stop1, start2, stop2) ==
  QAdd(QMul(QDiv(QSub(n, start1), QSub(stop1, start1)), QSub(stop2, start2)), start2)

\* A step that is neither null nor 0 is truthy.
Truthy(step) == step # Null /\ step[1] # 0

SL_x == 10
SL_y == 10
SL_length == 80
SL_thickness == 20

\* The sliders the sketch may create, as constructor arguments.
SL_configs ==
  <<[min |-> QInt(0), max |-> QInt(50), defaultValue |-> QInt(25),
    isInteger |-> FALSE, step |-> Null, isVertical |-> FALSE],
   [min |-> QInt(0), max |-> QInt(10), defaultValue |-> <<5, 2>>,
    isInteger |-> TRUE, step |-> Null, isVertical |-> FALSE],
   [min |-> <<1, 2>>, max |-> <<5, 2>>, defaultValue |-> QInt(1),
    isInteger |-> TRUE, step |-> Null, isVertical |-> FALSE],
   [min |-> QInt(0), max |-> QInt(10), defaultValue |-> QInt(12),
    isInteger |-> FALSE, step |-> QInt(3), isVertical |-> FALSE],
   [min |-> QInt(0), max |-> QInt(10), defaultValue |-> QInt(0),
    isInteger |-> FALSE, step |-> <<1, 4>>, isVertical |-> TRUE],
   [min |-> QInt(0), max |-> QInt(10), defaultValue |-> QInt(4),
    isInteger |-> TRUE, step |-> <<1, 2>>, isVertical |-> TRUE],
   [min |-> QInt(0), max |-> QInt(10), defaultValue |-> QInt(0),
    isInteger |-> TRUE, step |-> QInt(3), isVertical |-> FALSE],
   [min |-> QInt(5), max |-> QInt(5), defaultValue |-> QInt(5),
    isInteger |-> FALSE, step |-> Null, isVertical |-> FALSE]>>

\* Slider constructor.
SL_new(c) ==
  [min |-> c.min, max |-> c.max, isInteger |-> c.isInteger, isVertical |-> c.isVertical,
   width |-> IF c.isVertical THEN SL_thickness ELSE SL_length,
   height |-> IF c.isVertical THEN SL_length ELSE SL_thickness,
   step |-> IF Truthy(c.step) THEN c.step
            ELSE IF c.isInteger THEN QInt(1)
            ELSE QDiv(QSub(c.max, c.min), QInt(100)),
   value |-> IF c.isInteger THEN QRound(c.defaultValue) ELSE c.defaultValue,
   isDragging |-> FALSE, isHovering |-> FALSE, onChange |-> Null]

\* SL_inside counting the edges of the bounds as inside.
SL_inside_edges(s, mx, my) ==
  mx >= SL_x /\ mx <= SL_x + s.width /\ my >= SL_y /\ my <= SL_y + s.height

SL_inside(s, mx, my) ==
  mx > SL_x /\ mx < SL_x + s.width /\ my > SL_y /\ my < SL_y + s.height

\* The value handleDrag assigns while dragging.
SL_dragValue(s, mx, my) ==
  LET mousePos == QInt(IF s.isVertical THEN my ELSE mx)
      sliderStart == QInt(IF s.isVertical THEN SL_y ELSE SL_x)
      mapped == QMap(mousePos, sliderStart, QAdd(sliderStart, QInt(SL_length)),
                     IF s.isVertical THEN s.max ELSE s.min,
                     IF s.isVertical THEN s.min ELSE s.max)
      stepped == IF Truthy(s.step) THEN QMul(QRound(QDiv(mapped, s.step)), s.step)
                 ELSE mapped
      rounded == IF s.isInteger THEN QRound(stepped) ELSE stepped
  IN QConstrain(rounded, s.min, s.max)

SL_handleDrag(s, mx, my) ==
  IF s.isDragging THEN [s EXCEPT !.value = SL_dragValue(s, mx, my)] ELSE s

\* handleDrag: the onChange invocations of the call.
SL_dragFired(s, mx, my) ==
  IF s.isDragging /\ s.onChange # Null
  THEN <<[cb |-> s.onChange, arg |-> SL_dragValue(s, mx, my)]>>
  ELSE <<>>

SL_handleMousePressed(s, mx, my) ==
  IF SL_inside(s, mx, my) THEN SL_handleDrag([s EXCEPT !.isDragging = TRUE], mx, my) ELSE s

\* handleMousePressed: the onChange invocations of the call.
SL_pressFired(s, mx, my) ==
  IF SL_inside(s, mx, my) THEN SL_dragFired([s EXCEPT !.isDragging = TRUE], mx, my) ELSE <<>>

SL_handleMouseReleased(s) == [s EXCEPT !.isDragging = FALSE]

SL_handleMouseMoved(s, mx, my) == [s EXCEPT !.isHovering = SL_inside(s, mx, my)]

SL_getValue(s) == s.value

SL_setValue(s, v) ==
  LET r == IF s.isInteger THEN QRound(v)
           ELSE IF Truthy(s.step) THEN QMul(QRound(QDiv(v, s.step)), s.step)
           ELSE v
  IN [s EXCEPT !.value = QConstrain(r, s.min, s.max)]

\* setValue: the onChange invocations of the call.
SL_setValueFired(s, v) ==
  IF s.onChange # Null
  THEN <<[cb |-> s.onChange, arg |-> SL_setValue(s, v).value]>>
  ELSE <<>>

SL_setOnChange(s, cb) == [s EXCEPT !.onChange = cb]

\* -------------------------------------------------------- FilePicker
\* Most selections the model lets the user make.
MaxSelections == 2

\* Host values: a selected file, an array, and Loaded(n), the record
\* {name, type, size, data} loadImage resolves with for the file named n:
\* the name, type and size of that file and the image decoded from its data.
File(n) == [kind |-> "file", name |-> n]
Array(items) == [kind |-> "array", items |-> items]
Loaded(n) == [kind |-> "loaded", name |-> n]

\* FilePicker constructor.
FP_new == [onSelect |-> Null, multiple |-> FALSE]

\* What the file input may hand to handleFile: one file or an array of files.
FP_selectable ==
  {File("p"), Array(<<>>), Array(<<File("p")>>), Array(<<File("p"), File("q")>>)}

\* The files a selection asks loadImage to decode, in order.
FP_filesOf(file) == IF file.kind = "array" THEN file.items ELSE <<file>>

\* handleFile with a handler registered: one loadImage promise per file,
\* and one reaction (then) that has not run.  order lists the files in the
\* order their decodes complete.
FP_handleFile(file) ==
  [file |-> file,
   loads |-> [i \in 1..Len(FP_filesOf(file)) |-> "pending"],
   order |-> <<>>,
   settled |-> FALSE,
   calls |-> <<>>]

\* The promise the reaction waits on is fulfilled as soon as one decode is.
FP_allResolved_any(s) ==
  Len(s.loads) = 0 \/ \E i \in 1..Len(s.loads) : s.loads[i] = "decoded"

\* Promise.all of the loadImage promises (the one promise for a single
\* file) is fulfilled.
FP_allResolved(s) == \A i \in 1..Len(s.loads) : s.loads[i] = "decoded"

\* FP_result listing the loaded records in the order the decodes completed.
FP_result_arrivalOrder(s) ==
  Array([k \in 1..Len(s.order) |-> Loaded(FP_filesOf(s.file)[s.order[k]].name)])

\* The value the reaction passes to onSelect: Promise.all's array holds the
\* promises' values in the order of the promises.
FP_result(s) ==
  IF s.file.kind = "array"
  THEN Array([i \in 1..Len(s.file.items) |-> Loaded(s.file.items[i].name)])
  ELSE Array(<<Loaded(s.file.name)>>)

\* The reaction: this.onSelect(...) with the handler registered now; with
\* none registered the call throws and nothing is invoked.
FP_then(f, s) ==
  [s EXCEPT !.settled = TRUE,
            !.calls = IF f.onSelect # Null
                      THEN Append(@, [cb |-> f.onSelect, arg |-> FP_result(s)])
                      ELSE @]

FP_setOnSelect(f, cb) == [f EXCEPT !.onSelect = cb]

FP_setMultiple(f, enable) == [f EXCEPT !.multiple = enable]

\* ------------------------------------------------------- RadioButton
RB_x == 20
RB_y == 20
\* Vertical distance between the centres of two successive options.
RB_spacing == 25
\* A click nearer than this to an option's centre selects the option.
RB_radius == 10

\* The option lists the sketch may give the constructor.
RB_optionLists == {<<"x">>, <<"x", "y">>, <<"x", "y", "z">>}

\* RadioButton constructor.
RB_new(options) == [options |-> options, selected |-> 0, onChange |-> Null]

\* The group of the README's example, of three options.
RB_default == RB_new(<<"x", "y", "z">>)

\* RB_near counting a click on the rim, at the distance RB_radius exactly.
RB_near_onRim(mx, my, i) ==
  (mx - RB_x) * (mx - RB_x) + (my - (RB_y + i * RB_spacing)) * (my - (RB_y + i * RB_spacing))
    <= RB_radius * RB_radius

\* p.dist(mouseX, mouseY, x, y + i * 25) < 10, compared as squares.
RB_near(mx, my, i) ==
  (mx - RB_x) * (mx - RB_x) + (my - (RB_y + i * RB_spacing)) * (my - (RB_y + i * RB_spacing))
    < RB_radius * RB_radius

\* The options the loop of handleClick finds near the pointer.
RB_hits(r, mx, my) == {i \in 0..(Len(r.options) - 1) : RB_near(mx, my, i)}

\* The loop stops at the first option near the pointer.
RB_firstHit(r, mx, my) ==
  CHOOSE i \in RB_hits(r, mx, my) : \A j \in RB_hits(r, mx, my) : i <= j

RB_handleClick(r, mx, my) ==
  IF RB_hits(r, mx, my) # {} THEN [r EXCEPT !.selected = RB_firstHit(r, mx, my)] ELSE r

\* handleClick: the onChange invocations of the call.
RB_clickFired(r, mx, my) ==
  IF RB_hits(r, mx, my) # {} /\ r.onChange # Null
  THEN <<[cb |-> r.onChange, arg |-> r.options[RB_firstHit(r, mx, my) + 1]]>>
  ELSE <<>>

RB_getSelected(r) == r.options[r.selected + 1]

RB_setOnChange(r, cb) == [r EXCEPT !.onChange = cb]

\* display draws the group and assigns no field.
RB_display(r) == r

\* --------------------------------------------------------- the sketch
\* Pointer positions <<p.mouseX, p.mouseY>> the host reports on a click: on an
\* edge of the widget (outside), and inside it, in and between character
\* cells, on the first and on the second visible row.
TA_pointers ==
  {<<TA_x, TA_y + 5>>, <<TA_x + 12, TA_y + TA_h>>}
    \cup ({TA_x + 12, TA_x + 15, TA_x + 16, TA_x + 26} \X {TA_y + 5, TA_y + 25})
IB_pointers ==
  {<<IB_x, IB_y + 5>>, <<IB_x + 12, IB_y + IB_h>>, <<IB_x + IB_w, IB_y + 5>>,
   <<IB_x + 12, IB_y>>, <<IB_x + 12, IB_y + 5>>}

\* Pointer positions on a press, drag or move over the Slider: along the
\* track of a horizontal and of a vertical slider (before it, on its ends,
\* inside it, past it) and beside it.
SL_along == {-10, 0, 10, 30, 40, 80, 90}
SL_pointers ==
  {<<SL_x + a, SL_y + 10>> : a \in SL_along} \cup {<<SL_x + 10, SL_y + a>> : a \in SL_along}
    \cup {<<SL_x + 40, SL_y + SL_thickness>>, <<SL_x + SL_thickness, SL_y + 40>>}
\* The values given to setValue.
SL_values == {QInt(-3), QInt(0), <<7, 4>>, <<5, 2>>, QInt(12), QInt(60)}

\* The Slider of the README's example: ui.Slider(10, 50, 200, 0, 100, 50).
SL_default ==
  SL_new([min |-> QInt(0), max |-> QInt(100), defaultValue |-> QInt(50),
          isInteger |-> FALSE, step |-> Null, isVertical |-> FALSE])

Init ==
  /\ \/ /\ widget = "TextArea" /\ ib = IB_new(<<>>) /\ sl = SL_default
        /\ \E s \in Texts : ta = TA_new(s)
     \/ /\ widget = "InputBox" /\ ta = TA_new(<<>>) /\ sl = SL_default
        /\ \E s \in Words : ib = IB_new(s)
     \/ /\ widget = "Slider" /\ ta = TA_new(<<>>) /\ ib = IB_new(<<>>)
        /\ \E i \in DOMAIN SL_configs : sl = SL_new(SL_configs[i])
  /\ registered = Null
  /\ fp = FP_new /\ selections = <<>> /\ rb = RB_default /\ group = <<>>
  /\ millis = 0
  /\ lastOp = Op("new", "", 0, 0, <<>>)
  /\ fired = <<>>

TAKey(k) ==
  /\ widget = "TextArea"
  /\ (ta.isFocused /\ (k = "ENTER" \/ KeyLengthIsOne(k))) => Len(Join(ta.lines)) < MaxLen
  /\ ta' = TA_handleKeyPress(ta, k)
  /\ fired' = TA_keyFired(ta, k)
  /\ lastOp' = Op("handleKeyPress", k, 0, 0, <<>>)
  /\ UNCHANGED <<group, rb, fp, selections, widget, ib, sl, millis, registered>>

TAClick(mx, my) ==
  /\ widget = "TextArea"
  /\ ta' = TA_handleClick(ta, mx, my)
  /\ fired' = <<>>
  /\ lastOp' = Op("handleClick", "", mx, my, <<>>)
  /\ UNCHANGED <<group, rb, fp, selections, widget, ib, sl, millis, registered>>

TASetText(s) ==
  /\ widget = "TextArea"
  /\ ta' = TA_setText(ta, s)
  /\ fired' = <<>>
  /\ lastOp' = Op("setText", "", 0, 0, s)
  /\ UNCHANGED <<group, rb, fp, selections, widget, ib, sl, millis, registered>>

TAGetText ==
  /\ widget = "TextArea"
  /\ fired' = <<>>
  /\ lastOp' = Op("getText", "", 0, 0, TA_getText(ta))
  /\ UNCHANGED <<group, rb, fp, selections, widget, ta, ib, sl, millis, registered>>

TASetOnInput(cb) ==
  /\ widget = "TextArea"
  /\ ta' = TA_setOnInput(ta, cb)
  /\ registered' = cb
  /\ fired' = <<>>
  /\ lastOp' = Op("setOnInput", "", 0, 0, <<>>)
  /\ UNCHANGED <<group, rb, fp, selections, widget, ib, sl, millis>>

TADisplay ==
  /\ widget = "TextArea"
  /\ ta' = TA_display(ta)
  /\ fired' = <<>>
  /\ lastOp' = Op("display", "", 0, 0, <<>>)
  /\ UNCHANGED <<group, rb, fp, selections, widget, ib, sl, millis, registered>>

IBKey(k) ==
  /\ widget = "InputBox"
  /\ (ib.isFocused /\ KeyLengthIsOne(k)) => Len(ib.text) < MaxLen
  /\ ib' = IB_handleKeyPress(ib, k)
  /\ fired' = IB_keyFired(ib, k)
  /\ lastOp' = Op("handleKeyPress", k, 0, 0, <<>>)
  /\ UNCHANGED <<group, rb, fp, selections, widget, ta, sl, millis, registered>>

IBClick(mx, my) ==
  /\ widget = "InputBox"
  /\ ib' = IB_handleClick(ib, mx, my)
  /\ fired' = <<>>
  /\ lastOp' = Op("handleClick", "", mx, my, <<>>)
  /\ UNCHANGED <<group, rb, fp, selections, widget, ta, sl, millis, registered>>

IBGetText ==
  /\ widget = "InputBox"
  /\ fired' = <<>>
  /\ lastOp' = Op("getText", "", 0, 0, IB_getText(ib))
  /\ UNCHANGED <<group, rb, fp, selections, widget, ta, ib, sl, millis, registered>>

IBSetOnInput(cb) ==
  /\ widget = "InputBox"
  /\ ib' = IB_setOnInput(ib, cb)
  /\ registered' = cb
  /\ fired' = <<>>
  /\ lastOp' = Op("setOnInput", "", 0, 0, <<>>)
  /\ UNCHANGED <<group, rb, fp, selections, widget, ta, sl, millis>>

\* display is called once per frame; the clock has advanced by dt since the
\* previous frame.
IBDisplay(dt) ==
  /\ widget = "InputBox"
  /\ millis + dt <= MaxMillis
  /\ millis' = millis + dt
  /\ ib' = IB_display(ib, millis + dt)
  /\ fired' = <<>>
  /\ lastOp' = Op("display", "", 0, 0, <<>>)
  /\ UNCHANGED <<group, rb, fp, selections, widget, ta, sl, registered>>

SLDrag(mx, my) ==
  /\ widget = "Slider"
  /\ sl' = SL_handleDrag(sl, mx, my)
  /\ fired' = SL_dragFired(sl, mx, my)
  /\ lastOp' = Op("handleDrag", "", mx, my, <<>>)
  /\ UNCHANGED <<group, rb, fp, selections, widget, ta, ib, millis, registered>>

SLPress(mx, my) ==
  /\ widget = "Slider"
  /\ sl' = SL_handleMousePressed(sl, mx, my)
  /\ fired' = SL_pressFired(sl, mx, my)
  /\ lastOp' = Op("handleMousePressed", "", mx, my, <<>>)
  /\ UNCHANGED <<group, rb, fp, selections, widget, ta, ib, millis, registered>>

SLRelease ==
  /\ widget = "Slider"
  /\ sl' = SL_handleMouseReleased(sl)
  /\ fired' = <<>>
  /\ lastOp' = Op("handleMouseReleased", "", 0, 0, <<>>)
  /\ UNCHANGED <<group, rb, fp, selections, widget, ta, ib, millis, registered>>

SLMove(mx, my) ==
  /\ widget = "Slider"
  /\ sl' = SL_handleMouseMoved(sl, mx, my)
  /\ fired' = <<>>
  /\ lastOp' = Op("handleMouseMoved", "", mx, my, <<>>)
  /\ UNCHANGED <<group, rb, fp, selections, widget, ta, ib, millis, registered>>

SLGetValue ==
  /\ widget = "Slider"
  /\ fired' = <<>>
  /\ lastOp' = Op("getValue", "", 0, 0, SL_getValue(sl))
  /\ UNCHANGED <<group, rb, fp, selections, widget, ta, ib, sl, millis, registered>>

SLSetValue(v) ==
  /\ widget = "Slider"
  /\ sl' = SL_setValue(sl, v)
  /\ fired' = SL_setValueFired(sl, v)
  /\ lastOp' = Op("setValue", "", 0, 0, v)
  /\ UNCHANGED <<group, rb, fp, selections, widget, ta, ib, millis, registered>>

SLSetOnChange(cb) ==
  /\ widget = "Slider"
  /\ sl' = SL_setOnChange(sl, cb)
  /\ registered' = cb
  /\ fired' = <<>>
  /\ lastOp' = Op("setOnChange", "", 0, 0, <<>>)
  /\ UNCHANGED <<group, rb, fp, selections, widget, ta, ib, millis>>

Next ==
  \/ \E k \in Keys : TAKey(k)
  \/ \E pt \in TA_pointers : TAClick(pt[1], pt[2])
  \/ \E s \in Texts : TASetText(s)
  \/ TAGetText
  \/ \E cb \in Callbacks : TASetOnInput(cb)
  \/ TADisplay
  \/ \E k \in Keys : IBKey(k)
  \/ \E pt \in IB_pointers : IBClick(pt[1], pt[2])
  \/ IBGetText
  \/ \E cb \in Callbacks : IBSetOnInput(cb)
  \/ \E dt \in {0, TickMs, 2 * TickMs, 3 * TickMs} : IBDisplay(dt)
  \/ \E pt \in SL_pointers : SLDrag(pt[1], pt[2])
  \/ \E pt \in SL_pointers : SLPress(pt[1], pt[2])
  \/ SLRelease
  \/ \E pt \in SL_pointers : SLMove(pt[1], pt[2])
  \/ SLGetValue
  \/ \E v \in SL_values : SLSetValue(v)
  \/ \E cb \in Callbacks : SLSetOnChange(cb)

Spec == Init /\ [][Next]_vars

\* setText and getText applied to every text of Strings, on a TextArea that
\* clicks focus, unfocus and place the cursor in.
SetTextNext ==
  \/ \E s \in Strings : TASetText(s)
  \/ TAGetText
  \/ \E pt \in TA_pointers : TAClick(pt[1], pt[2])

SpecSetText == Init /\ [][SetTextNext]_vars

\* ----------------------------------------------- the Slider's sketch
\* A sketch that creates a Slider only.
InitSL ==
  /\ widget = "Slider" /\ ta = TA_new(<<>>) /\ ib = IB_new(<<>>)
  /\ \E i \in DOMAIN SL_configs : sl = SL_new(SL_configs[i])
  /\ registered = Null
  /\ fp = FP_new /\ selections = <<>> /\ rb = RB_default /\ group = <<>>
  /\ millis = 0
  /\ lastOp = Op("new", "", 0, 0, <<>>)
  /\ fired = <<>>

NextSL ==
  \/ \E pt \in SL_pointers : SLDrag(pt[1], pt[2])
  \/ \E pt \in SL_pointers : SLPress(pt[1], pt[2])
  \/ SLRelease
  \/ \E pt \in SL_pointers : SLMove(pt[1], pt[2])
  \/ SLGetValue
  \/ \E v \in SL_values : SLSetValue(v)
  \/ \E cb \in Callbacks : SLSetOnChange(cb)

SpecSlider == InitSL /\ [][NextSL]_vars

\* ------------------------------------------ the RadioButton's sketch
\* Pointer positions on a click, relative to the centre of each of three
\* rows: on the centre, inside the circle, on its rim, and between rows.
RB_offsets == {<<0, 0>>, <<7, 7>>, <<6, 8>>, <<10, 0>>, <<0, 12>>}
RB_pointers ==
  {<<RB_x + d[1], RB_y + i * RB_spacing + d[2]>> : d \in RB_offsets, i \in 0..2}

InitRB ==
  /\ widget = "RadioButton"
  /\ \E options \in RB_optionLists : rb = RB_new(options)
  /\ group = <<>>
  /\ ta = TA_new(<<>>) /\ ib = IB_new(<<>>) /\ sl = SL_default
  /\ fp = FP_new /\ selections = <<>>
  /\ millis = 0
  /\ lastOp = Op("new", "", 0, 0, <<>>)
  /\ fired = <<>>
  /\ registered = Null

RBClick(mx, my) ==
  /\ widget = "RadioButton"
  /\ rb' = RB_handleClick(rb, mx, my)
  /\ fired' = RB_clickFired(rb, mx, my)
  /\ lastOp' = Op("handleClick", "", mx, my, <<>>)
  /\ UNCHANGED <<group, widget, ta, ib, sl, millis, registered, fp, selections>>

RBGetSelected ==
  /\ widget = "RadioButton"
  /\ fired' = <<>>
  /\ lastOp' = Op("getSelected", "", 0, 0, RB_getSelected(rb))
  /\ UNCHANGED <<group, rb, widget, ta, ib, sl, millis, registered, fp, selections>>

RBSetOnChange(cb) ==
  /\ widget = "RadioButton"
  /\ rb' = RB_setOnChange(rb, cb)
  /\ registered' = cb
  /\ fired' = <<>>
  /\ lastOp' = Op("setOnChange", "", 0, 0, <<>>)
  /\ UNCHANGED <<group, widget, ta, ib, sl, millis, fp, selections>>

RBDisplay ==
  /\ widget = "RadioButton"
  /\ rb' = RB_display(rb)
  /\ fired' = <<>>
  /\ lastOp' = Op("display", "", 0, 0, <<>>)
  /\ UNCHANGED <<group, widget, ta, ib, sl, millis, registered, fp, selections>>

NextRB ==
  \/ \E pt \in RB_pointers : RBClick(pt[1], pt[2])
  \/ RBGetSelected
  \/ \E cb \in Callbacks : RBSetOnChange(cb)
  \/ RBDisplay

SpecRadio == InitRB /\ [][NextRB]_vars

\* --------------------------------- a sketch of several text widgets
\* The k-th widget of the group is constructed GroupPitch further right
\* than the (k-1)-th: the bounds are pairwise disjoint.
GroupPitch == 100
GroupDx(k) == (k - 1) * GroupPitch

\* A TextArea and two InputBoxes.
GroupKinds == <<"TextArea", "InputBox", "InputBox">>

\* Pointer positions on a click: inside each widget, on the second row of
\* the first, on the right edge of the first, and between two widgets.
GroupPointers ==
  {<<TA_x + 12 + GroupDx(k), TA_y + 5>> : k \in DOMAIN GroupKinds}
    \cup {<<TA_x + 26, TA_y + 25>>, <<TA_x + TA_w, TA_y + 5>>, <<TA_x + 80, TA_y + 5>>}

\* The keys typed into the group.
GroupKeys == {"a", "ENTER", "BACKSPACE", "LEFT_ARROW"}

\* handleClick of the k-th widget: the widget at x + GroupDx(k) sees the
\* pointer where the widget at x sees it GroupDx(k) further left.
GroupHandleClick(k, w, mx, my) ==
  IF GroupKinds[k] = "TextArea" THEN TA_handleClick(w, mx - GroupDx(k), my)
  ELSE IB_handleClick(w, mx - GroupDx(k), my)

GroupHandleKeyPress(k, w, key) ==
  IF GroupKinds[k] = "TextArea" THEN TA_handleKeyPress(w, key)
  ELSE IB_handleKeyPress(w, key)

\* The text of the k-th widget has room for one more character.
GroupRoom(k, w) ==
  IF GroupKinds[k] = "TextArea" THEN Len(Join(w.lines)) < MaxLen ELSE Len(w.text) < MaxLen

InitGroup ==
  /\ widget = "TextWidgets"
  /\ \E s \in {<<>>, <<"a", NL>>} :
       group = [k \in DOMAIN GroupKinds |->
                  IF GroupKinds[k] = "TextArea" THEN TA_new(s) ELSE IB_new(<<>>)]
  /\ ta = TA_new(<<>>) /\ ib = IB_new(<<>>) /\ sl = SL_default
  /\ fp = FP_new /\ selections = <<>> /\ rb = RB_default
  /\ millis = 0
  /\ lastOp = Op("new", "", 0, 0, <<>>)
  /\ fired = <<>>
  /\ registered = Null

\* mousePressed of the sketch: handleClick of every widget.
GroupClick(mx, my) ==
  /\ widget = "TextWidgets"
  /\ group' = [k \in DOMAIN group |-> GroupHandleClick(k, group[k], mx, my)]
  /\ fired' = <<>>
  /\ lastOp' = Op("handleClick", "", mx, my, <<>>)
  /\ UNCHANGED <<widget, ta, ib, sl, millis, registered, fp, selections, rb>>

\* keyPressed of the sketch: handleKeyPress of every widget.
GroupKey(key) ==
  /\ widget = "TextWidgets"
  /\ \A k \in DOMAIN group :
       (group[k].isFocused /\ (key = "ENTER" \/ KeyLengthIsOne(key))) => GroupRoom(k, group[k])
  /\ group' = [k \in DOMAIN group |-> GroupHandleKeyPress(k, group[k], key)]
  /\ fired' = <<>>
  /\ lastOp' = Op("handleKeyPress", key, 0, 0, <<>>)
  /\ UNCHANGED <<widget, ta, ib, sl, millis, registered, fp, selections, rb>>

NextGroup ==
  \/ \E pt \in GroupPointers : GroupClick(pt[1], pt[2])
  \/ \E key \in GroupKeys : GroupKey(key)

SpecGroup == InitGroup /\ [][NextGroup]_vars

\* ------------------------------------------- the FilePicker's sketch
InitFP ==
  /\ widget = "FilePicker"
  /\ fp = FP_new /\ selections = <<>> /\ rb = RB_default /\ group = <<>>
  /\ ta = TA_new(<<>>) /\ ib = IB_new(<<>>) /\ sl = SL_default
  /\ millis = 0
  /\ lastOp = Op("new", "", 0, 0, <<>>)
  /\ fired = <<>>
  /\ registered = Null

FPSetOnSelect(cb) ==
  /\ widget = "FilePicker"
  /\ fp' = FP_setOnSelect(fp, cb)
  /\ UNCHANGED <<group, rb, selections, widget, ta, ib, sl, millis, lastOp, fired, registered>>

FPSetMultiple(enable) ==
  /\ widget = "FilePicker"
  /\ fp' = FP_setMultiple(fp, enable)
  /\ UNCHANGED <<group, rb, selections, widget, ta, ib, sl, millis, lastOp, fired, registered>>

FPHandleFile(file) ==
  /\ widget = "FilePicker"
  /\ Len(selections) < MaxSelections
  /\ selections' = IF fp.onSelect # Null THEN Append(selections, FP_handleFile(file))
                   ELSE selections
  /\ UNCHANGED <<group, rb, fp, widget, ta, ib, sl, millis, lastOp, fired, registered>>

\* The host finishes decoding file j of selection i and calls the success
\* callback, which resolves the loadImage promise.
FPDecoded(i, j) ==
  /\ widget = "FilePicker"
  /\ selections[i].loads[j] = "pending"
  /\ selections' = [selections EXCEPT ![i].loads[j] = "decoded",
                                     ![i].order = Append(@, j)]
  /\ UNCHANGED <<group, rb, fp, widget, ta, ib, sl, millis, lastOp, fired, registered>>

\* The host fails to decode file j of selection i: loadImage passed no
\* failure callback, so the promise stays pending for ever.
FPDecodeFails(i, j) ==
  /\ widget = "FilePicker"
  /\ selections[i].loads[j] = "pending"
  /\ selections' = [selections EXCEPT ![i].loads[j] = "failed"]
  /\ UNCHANGED <<group, rb, fp, widget, ta, ib, sl, millis, lastOp, fired, registered>>

\* The reaction of selection i runs once its promise is fulfilled.
FPThen(i) ==
  /\ widget = "FilePicker"
  /\ ~selections[i].settled
  /\ FP_allResolved(selections[i])
  /\ selections' = [selections EXCEPT ![i] = FP_then(fp, selections[i])]
  /\ UNCHANGED <<group, rb, fp, widget, ta, ib, sl, millis, lastOp, fired, registered>>

NextFP ==
  \/ \E cb \in Callbacks \cup {Null} : FPSetOnSelect(cb)
  \/ \E enable \in BOOLEAN : FPSetMultiple(enable)
  \/ \E file \in FP_selectable : FPHandleFile(file)
  \/ \E i \in 1..Len(selections) : \E j \in 1..Len(selections[i].loads) : FPDecoded(i, j)
  \/ \E i \in 1..Len(selections) : \E j \in 1..Len(selections[i].loads) : FPDecodeFails(i, j)
  \/ \E i \in 1..Len(selections) : FPThen(i)

SpecFilePicker == InitFP /\ [][NextFP]_vars

\* ------------------------------------------------------------- claims
NavKeys == {"LEFT_ARROW", "RIGHT_ARROW", "UP_ARROW", "DOWN_ARROW"}
IsTA == widget = "TextArea"
IsIB == widget = "InputBox"

\* C1: in every reachable state of a TextArea, lines is non-empty,
\* 0 <= cursorY < lines.length and 0 <= cursorX <= lines[cursorY].length.
C1_CursorInBuffer ==
  /\ Len(ta.lines) >= 1
  /\ 0 <= ta.cursorY /\ ta.cursorY < Len(ta.lines)
  /\ 0 <= ta.cursorX /\ ta.cursorX <= Len(ta.lines[ta.cursorY + 1])

\* C1 witness: a focused key press has left the cursor at the end of a
\* non-empty last line of a buffer of several lines.
C1_Witness ==
  /\ IsTA /\ ta.isFocused /\ lastOp.op = "handleKeyPress"
  /\ Len(ta.lines) >= 2 /\ ta.cursorY = Len(ta.lines) - 1
  /\ ta.cursorX = Len(ta.lines[Len(ta.lines)]) /\ ta.cursorX > 0

\* C2: a focused key press that changes the text, with a callback registered,
\* calls that callback exactly once, with the lines as they are after the
\* edit joined by line breaks.
C2_NotifiesOnMutation ==
  [][(IsTA /\ lastOp'.op = "handleKeyPress" /\ ta.isFocused /\ ta.onInput # Null
        /\ ta'.text # ta.text)
     => fired' = <<[cb |-> ta.onInput, arg |-> Join(ta'.lines)]>>]_vars

\* C2 witness: a character was typed into a buffer of several lines and the
\* callback received the joined text.
C2_Witness ==
  /\ IsTA /\ lastOp.op = "handleKeyPress" /\ lastOp.key = "a"
  /\ Len(ta.lines) >= 2
  /\ fired = <<[cb |-> ta.onInput, arg |-> Join(ta.lines)]>>

\* C3 (as claimed): an arrow key pressed on a TextArea calls no callback and
\* leaves lines and getText() unchanged.
C3_NavigationSilent ==
  [][(IsTA /\ lastOp'.op = "handleKeyPress" /\ lastOp'.key \in NavKeys)
     => (fired' = <<>> /\ ta'.lines = ta.lines /\ TA_getText(ta') = TA_getText(ta))]_vars

\* C4 (as claimed): BACKSPACE on a focused TextArea whose cursor is at row 0,
\* column 0 leaves lines, cursor and getText() unchanged and calls no callback.
C4_BackspaceAtStartSilent ==
  [][(IsTA /\ lastOp'.op = "handleKeyPress" /\ lastOp'.key = "BACKSPACE"
        /\ ta.isFocused /\ ta.cursorX = 0 /\ ta.cursorY = 0)
     => (/\ ta'.lines = ta.lines /\ ta'.cursorX = 0 /\ ta'.cursorY = 0
         /\ TA_getText(ta') = TA_getText(ta)
         /\ fired' = <<>>)]_vars

\* C5: right after setText(s), getText() returns s and the lines joined by
\* line breaks give s.
C5_SetTextRoundTrip ==
  (IsTA /\ lastOp.op = "setText")
    => (TA_getText(ta) = lastOp.arg /\ Join(ta.lines) = lastOp.arg)

\* C5 witness: setText was given a text that ends in a line break.
C5_Witness ==
  /\ IsTA /\ lastOp.op = "setText"
  /\ Len(lastOp.arg) >= 2 /\ lastOp.arg[Len(lastOp.arg)] = NL
  /\ Len(ta.lines) >= 2

\* C6 (as claimed): a newly constructed TextArea holds its initial text split
\* on line breaks: the lines setText gives, none containing a line break.
C6_ConstructionSplits ==
  (IsTA /\ lastOp.op = "new")
    => (/\ ta.lines = TA_setText(ta, ta.text).lines
        /\ \A i \in 1..Len(ta.lines) : \A j \in 1..Len(ta.lines[i]) : ta.lines[i][j] # NL)

\* C7: an InputBox gains focus exactly by a click strictly inside its bounds,
\* loses it exactly by a click not inside them or by ENTER while focused, no
\* other call changes isFocused, and ENTER leaves the text unchanged.
C7_FocusMachine ==
  [][IsIB =>
       LET in == /\ lastOp'.mx > IB_x /\ lastOp'.mx < IB_x + IB_w
                 /\ lastOp'.my > IB_y /\ lastOp'.my < IB_y + IB_h
           click == lastOp'.op = "handleClick"
           enter == lastOp'.op = "handleKeyPress" /\ lastOp'.key = "ENTER"
       IN /\ click => (ib'.isFocused <=> in)
          /\ (enter /\ ib.isFocused) => (~ib'.isFocused /\ ib'.text = ib.text)
          /\ (~click /\ ~(enter /\ ib.isFocused)) => ib'.isFocused = ib.isFocused]_vars

\* C7 witness: ENTER was pressed on a focused InputBox holding text, which is
\* now unfocused.
C7_Witness ==
  /\ IsIB /\ lastOp.op = "handleKeyPress" /\ lastOp.key = "ENTER"
  /\ fired # <<>> /\ ~ib.isFocused /\ Len(ib.text) > 0

\* C8: a key delivered to an unfocused TextArea or InputBox changes none of
\* the widget's fields and calls no callback.
C8_UnfocusedIgnoresKeys ==
  [][lastOp'.op = "handleKeyPress" =>
       /\ (IsTA /\ ~ta.isFocused) => (ta' = ta /\ fired' = <<>>)
       /\ (IsIB /\ ~ib.isFocused) => (ib' = ib /\ fired' = <<>>)]_vars

\* C8 witness: BACKSPACE reached an unfocused TextArea that holds text behind
\* its cursor and has a callback registered.
C8_Witness ==
  /\ IsTA /\ lastOp.op = "handleKeyPress" /\ lastOp.key = "BACKSPACE"
  /\ ~ta.isFocused /\ ta.onInput # Null /\ ta.cursorX > 0

\* The cursor's line lies inside the viewport.
CursorLineVisible ==
  /\ ta.cursorY * lineHeight >= ta.scrollY
  /\ (ta.cursorY + 1) * lineHeight <= ta.scrollY + TA_h

\* C9 (as claimed): after a focused key press, a click that places the cursor
\* and setText, the cursor's line lies inside the viewport.
C9_CursorLineVisible ==
  (IsTA /\ \/ lastOp.op = "handleKeyPress" /\ ta.isFocused
           \/ lastOp.op = "handleClick" /\ ta.isFocused
           \/ lastOp.op = "setText")
    => CursorLineVisible

\* The characters of the line under the cursor are cells 0, 1, ...; cell k
\* spans 5 + 10k .. 5 + 10(k+1) pixels from the widget's left edge.
PointerInCell(k) ==
  LET rel == lastOp.mx - TA_x
  IN k < Len(CurLine(ta)) /\ 5 + 10 * k < rel /\ rel < 5 + 10 * (k + 1)

ClickPlacedCursor == IsTA /\ lastOp.op = "handleClick" /\ ta.isFocused

\* C10 (as claimed): on a line of 10px characters, a click 12px from the left
\* edge gives column 0, one 16px from it gives column 1, and a click strictly
\* inside the k-th cell gives the column at the cell's left edge.
C10_HitLeftEdge ==
  ClickPlacedCursor =>
    /\ (lastOp.mx - TA_x = 12 /\ Len(CurLine(ta)) >= 2) => ta.cursorX = 0
    /\ (lastOp.mx - TA_x = 16 /\ Len(CurLine(ta)) >= 2) => ta.cursorX = 1
    /\ \A k \in 0..MaxLen : PointerInCell(k) => ta.cursorX = k

\* C10 (amended): a click 12px from the left edge gives column 1, one 16px
\* from it gives column 2, and a click strictly inside the k-th cell gives
\* the column at the cell's right edge.
C10_HitRightEdge ==
  ClickPlacedCursor =>
    /\ (lastOp.mx - TA_x = 12 /\ Len(CurLine(ta)) >= 2) => ta.cursorX = 1
    /\ (lastOp.mx - TA_x = 16 /\ Len(CurLine(ta)) >= 2) => ta.cursorX = 2
    /\ \A k \in 0..MaxLen : PointerInCell(k) => ta.cursorX = k + 1

\* C10 witness: a click 16px from the left edge on a line of two or more
\* characters has put the cursor at column 2.
C10_Witness ==
  /\ ClickPlacedCursor /\ lastOp.mx - TA_x = 16
  /\ Len(CurLine(ta)) >= 2 /\ ta.cursorX = 2

\* C11: display() on a TextArea changes none of its fields; on an InputBox it
\* changes at most cursorVisible and lastBlink; it calls no callback.
C11_DisplayKeepsData ==
  [][lastOp'.op = "display" =>
       /\ IsTA => ta' = ta
       /\ IsIB => [ib' EXCEPT !.cursorVisible = ib.cursorVisible,
                              !.lastBlink = ib.lastBlink] = ib
       /\ fired' = <<>>]_vars

\* C11 witness: display has blinked the caret of a focused InputBox that
\* holds text and has a callback registered.
C11_Witness ==
  /\ IsIB /\ lastOp.op = "display" /\ ib.isFocused /\ ~ib.cursorVisible
  /\ ib.lastBlink > 0 /\ Len(ib.text) > 0 /\ ib.onInput # Null

FocusedKey(k) ==
  IsTA /\ ta.isFocused /\ lastOp'.op = "handleKeyPress" /\ lastOp'.key = k

\* The line l without its c-th character (c >= 1).
WithoutChar(l, c) == [i \in 1..(Len(l) - 1) |-> IF i < c THEN l[i] ELSE l[i + 1]]

\* C16: BACKSPACE with cursorX > 0 removes the character left of the cursor
\* and decrements cursorX, other lines and cursorY unchanged; with cursorX = 0
\* and cursorY > 0 the previous line becomes previous \o current, the current
\* line is removed and the cursor goes to (cursorY - 1, old length of the
\* previous line).
C16_DeleteBackward ==
  [][FocusedKey("BACKSPACE") =>
       LET r == ta.cursorY
           c == ta.cursorX
           L == ta.lines
       IN /\ c > 0 =>
               /\ ta'.lines = [L EXCEPT ![r + 1] = WithoutChar(L[r + 1], c)]
               /\ ta'.cursorX = c - 1 /\ ta'.cursorY = r
          /\ (c = 0 /\ r > 0) =>
               /\ Len(ta'.lines) = Len(L) - 1
               /\ \A i \in 1..(Len(L) - 1) :
                    ta'.lines[i] = IF i < r THEN L[i]
                                   ELSE IF i = r THEN L[r] \o L[r + 1]
                                   ELSE L[i + 1]
               /\ ta'.cursorY = r - 1 /\ ta'.cursorX = Len(L[r])]_vars

\* C16 witness: a focused BACKSPACE has left the cursor inside a line, with
\* characters on both sides of it.
C16_Witness ==
  /\ IsTA /\ ta.isFocused /\ lastOp.op = "handleKeyPress" /\ lastOp.key = "BACKSPACE"
  /\ ta.cursorX > 0 /\ ta.cursorX < Len(CurLine(ta))

\* C17: ENTER with the cursor at (r, c) leaves the first c characters in line
\* r, inserts the rest as a new line r + 1, keeps every other line in order,
\* and puts the cursor at (r + 1, 0).
C17_InsertNewline ==
  [][FocusedKey("ENTER") =>
       LET r == ta.cursorY
           c == ta.cursorX
           L == ta.lines
       IN /\ Len(ta'.lines) = Len(L) + 1
          /\ \A i \in 1..(Len(L) + 1) :
               ta'.lines[i] = IF i <= r THEN L[i]
                              ELSE IF i = r + 1 THEN SubSeq(L[r + 1], 1, c)
                              ELSE IF i = r + 2 THEN SubSeq(L[r + 1], c + 1, Len(L[r + 1]))
                              ELSE L[i - 1]
          /\ ta'.cursorY = r + 1 /\ ta'.cursorX = 0]_vars

\* C17 witness: a focused ENTER has split a line between two characters.
C17_Witness ==
  /\ IsTA /\ ta.isFocused /\ lastOp.op = "handleKeyPress" /\ lastOp.key = "ENTER"
  /\ ta.cursorY >= 1 /\ ta.cursorX = 0
  /\ Len(CurLine(ta)) > 0 /\ Len(ta.lines[ta.cursorY]) > 0

\* C18: LEFT_ARROW decrements cursorX when it is positive, else goes to the
\* end of the previous line when there is one, else changes nothing;
\* RIGHT_ARROW increments cursorX when it is below the line's length, else
\* goes to column 0 of the next line when there is one, else changes nothing;
\* lines are not modified.
C18_HorizontalNavigation ==
  [][LET r == ta.cursorY
         c == ta.cursorX
         L == ta.lines
     IN /\ FocusedKey("LEFT_ARROW") =>
             /\ ta'.lines = L
             /\ <<ta'.cursorY, ta'.cursorX>> =
                  IF c > 0 THEN <<r, c - 1>>
                  ELSE IF r > 0 THEN <<r - 1, Len(L[r])>>
                  ELSE <<r, c>>
        /\ FocusedKey("RIGHT_ARROW") =>
             /\ ta'.lines = L
             /\ <<ta'.cursorY, ta'.cursorX>> =
                  IF c < Len(L[r + 1]) THEN <<r, c + 1>>
                  ELSE IF r < Len(L) - 1 THEN <<r + 1, 0>>
                  ELSE <<r, c>>]_vars

\* C18 witness: a focused LEFT_ARROW has left the cursor at the end of a
\* non-empty line that is not the last one.
C18_Witness ==
  /\ IsTA /\ ta.isFocused /\ lastOp.op = "handleKeyPress" /\ lastOp.key = "LEFT_ARROW"
  /\ ta.cursorY < Len(ta.lines) - 1
  /\ ta.cursorX = Len(CurLine(ta)) /\ ta.cursorX > 0

\* C19: UP_ARROW below the first line and DOWN_ARROW above the last line move
\* cursorY by one and set cursorX to the minimum of its old value and the
\* destination line's length; on the first (last) line UP (DOWN) leaves the
\* cursor unchanged; and DOWN followed by UP does not restore the column when
\* the line below is shorter than the column.
C19_VerticalNavigation ==
  /\ [][LET r == ta.cursorY
            c == ta.cursorX
            L == ta.lines
        IN /\ FocusedKey("UP_ARROW") =>
                <<ta'.cursorY, ta'.cursorX>> =
                  IF r > 0 THEN <<r - 1, IF c < Len(L[r]) THEN c ELSE Len(L[r])>>
                  ELSE <<r, c>>
           /\ FocusedKey("DOWN_ARROW") =>
                <<ta'.cursorY, ta'.cursorX>> =
                  IF r < Len(L) - 1
                  THEN <<r + 1, IF c < Len(L[r + 2]) THEN c ELSE Len(L[r + 2])>>
                  ELSE <<r, c>>]_vars
  /\ [](LET down == TA_handleKeyPress(ta, "DOWN_ARROW")
            back == TA_handleKeyPress(down, "UP_ARROW")
        IN (IsTA /\ ta.isFocused /\ ta.cursorY < Len(ta.lines) - 1
              /\ Len(ta.lines[ta.cursorY + 2]) < ta.cursorX)
           => (back.cursorY = ta.cursorY /\ back.cursorX < ta.cursorX))

\* C19 witness: a focused DOWN_ARROW has left the cursor at the end of a line
\* that is shorter than the line above it.
C19_Witness ==
  /\ IsTA /\ ta.isFocused /\ lastOp.op = "handleKeyPress" /\ lastOp.key = "DOWN_ARROW"
  /\ ta.cursorY >= 1 /\ ta.cursorX = Len(CurLine(ta))
  /\ Len(CurLine(ta)) < Len(ta.lines[ta.cursorY])

\* The summed measured widths of the first c characters of l.
RECURSIVE PrefixWidth(_, _)
PrefixWidth(l, c) == IF c = 0 THEN 0 ELSE PrefixWidth(l, c - 1) + TextWidth(l[c])

\* C20: a click strictly inside the TextArea puts cursorY at
\* floor((mouseY - y + scrollY) / lineHeight) clamped to [0, lines.length - 1]
\* and cursorX at the smallest c whose prefix width reaches
\* mouseX - x - padding, or at the line's length when no prefix reaches it.
C20_HitTest ==
  [][(IsTA /\ lastOp'.op = "handleClick"
        /\ lastOp'.mx > TA_x /\ lastOp'.mx < TA_x + TA_w
        /\ lastOp'.my > TA_y /\ lastOp'.my < TA_y + TA_h) =>
       LET f == (lastOp'.my - TA_y + ta.scrollY) \div lineHeight
           row == IF f < 0 THEN 0
                  ELSE IF f > Len(ta.lines) - 1 THEN Len(ta.lines) - 1 ELSE f
           line == ta.lines[row + 1]
           target == lastOp'.mx - TA_x - TA_padding
           reach == {c \in 0..Len(line) : PrefixWidth(line, c) >= target}
           col == IF reach = {} THEN Len(line)
                  ELSE CHOOSE c \in reach : \A d \in reach : c <= d
       IN ta'.cursorY = row /\ ta'.cursorX = col /\ ta'.lines = ta.lines]_vars

\* C20 witness: a click on a scrolled TextArea has put the cursor behind a
\* character of a line below the first.
C20_Witness ==
  /\ ClickPlacedCursor /\ ta.scrollY > 0 /\ ta.cursorY >= 1 /\ ta.cursorX >= 1

\* C12: single-slot callback registration.  Whatever callbacks setOnInput /
\* setOnChange were given before, a call on the widget invokes at most one
\* callback, never one other than the most recently registered, and a
\* notifying call (a key on a focused TextArea or InputBox, a setValue, a
\* drag while dragging, a press inside the Slider) invokes it exactly once.
IsSL == widget = "Slider"
Notifies ==
  \/ IsTA /\ ta.isFocused /\ lastOp'.op = "handleKeyPress"
  \/ IsIB /\ ib.isFocused /\ lastOp'.op = "handleKeyPress"
  \/ IsSL /\ lastOp'.op = "setValue"
  \/ IsSL /\ lastOp'.op = "handleDrag" /\ sl.isDragging
  \/ IsSL /\ lastOp'.op = "handleMousePressed" /\ SL_inside(sl, lastOp'.mx, lastOp'.my)
C12_SingleSlot ==
  [][ /\ Len(fired') <= 1
      /\ fired' # <<>> => registered # Null /\ fired'[1].cb = registered
      /\ (Notifies /\ registered # Null) => Len(fired') = 1 ]_vars

\* C12 witness: the Slider has just invoked "g", the callback registered
\* last, on a drag.
C12_Witness ==
  /\ IsSL /\ registered = "g" /\ lastOp.op = "handleDrag"
  /\ Len(fired) = 1 /\ fired[1].cb = "g"

\* C13: the Slider's value lies in [min, max] in every state, the state
\* after construction included, and so does every value given to onChange.
C13_ValueInRange ==
  IsSL => /\ QLe(sl.min, sl.value) /\ QLe(sl.value, sl.max)
          /\ \A i \in 1..Len(fired) : QLe(sl.min, fired[i].arg) /\ QLe(fired[i].arg, sl.max)

\* C14: the value of a Slider constructed with isInteger = true is an
\* integer in every state.
C14_IntegerValue == (IsSL /\ sl.isInteger) => sl.value[2] = 1

\* C15: FilePicker completion is single-shot and silent on failure.  For
\* each selection made while a handler is registered, onSelect is invoked at
\* most once, only when every selected file has been decoded, and with a
\* list holding one loaded record per selected file (a single file gives a
\* one-element list); a selection with a file whose decode has failed or is
\* still pending has no invocation.
IsFP == widget = "FilePicker"
C15_SingleShot ==
  IsFP => \A i \in 1..Len(selections) :
    LET s == selections[i]
        n == Len(FP_filesOf(s.file))
    IN /\ Len(s.calls) <= 1
       /\ s.calls # <<>> =>
            /\ \A j \in 1..n : s.loads[j] = "decoded"
            /\ s.calls[1].arg.kind = "array"
            /\ Len(s.calls[1].arg.items) = n
            /\ \A j \in 1..n : s.calls[1].arg.items[j] = Loaded(FP_filesOf(s.file)[j].name)
       /\ (\E j \in 1..n : s.loads[j] # "decoded") => s.calls = <<>>

\* C15 witness: one selection of a single file has been decoded and
\* reported in a one-element list, and a selection of two files, one decoded
\* and one failed, has reported nothing.
C15_Witness ==
  /\ IsFP
  /\ \E i \in 1..Len(selections) :
       /\ selections[i].file.kind = "file"
       /\ Len(selections[i].calls) = 1
       /\ Len(selections[i].calls[1].arg.items) = 1
  /\ \E i \in 1..Len(selections) :
       /\ selections[i].file.kind = "array"
       /\ selections[i].loads = <<"decoded", "failed">>
       /\ selections[i].calls = <<>>

\* C21: the TextArea's scroll offset scrollY is never negative, whatever
\* keys, clicks and setText calls the TextArea has handled.
C21_ScrollNonNegative == IsTA => ta.scrollY >= 0

\* C21 witness: an UP_ARROW on a scrolled TextArea has moved the cursor
\* above the viewport, and the scroll update has set scrollY to the top of
\* the cursor's line, below the first line.
C21_Witness ==
  /\ IsTA /\ lastOp.op = "handleKeyPress" /\ lastOp.key = "UP_ARROW"
  /\ ta.cursorY >= 1 /\ ta.scrollY = ta.cursorY * lineHeight

\* C26: getText() equals the elements of lines joined by the line break, in
\* every state: after construction with any text and after any keys, clicks
\* and setText calls.
C26_TextIsJoinedLines == IsTA => TA_getText(ta) = Join(ta.lines)

\* C26 witness: setText has replaced a text by one of two or more lines.
C26_Witness ==
  /\ IsTA /\ lastOp.op = "setText" /\ Len(ta.lines) >= 2 /\ Len(ta.text) >= 2

\* The Slider was constructed with an explicit step.
ExplicitStep ==
  \E i \in DOMAIN SL_configs :
    LET c == SL_configs[i] IN
    /\ Truthy(c.step) /\ sl.step = c.step
    /\ sl.min = c.min /\ sl.max = c.max
    /\ sl.isInteger = c.isInteger /\ sl.isVertical = c.isVertical

\* v is an integer multiple of the step, or min, or max.
OnStep(s, v) == QDiv(v, s.step)[2] = 1 \/ v = s.min \/ v = s.max

\* The raw value p.map gives the pointer of the call.
RawValue ==
  LET pos == QInt(IF sl.isVertical THEN lastOp'.my ELSE lastOp'.mx)
      start == QInt(IF sl.isVertical THEN SL_y ELSE SL_x)
  IN QMap(pos, start, QAdd(start, QInt(SL_length)),
          IF sl.isVertical THEN sl.max ELSE sl.min,
          IF sl.isVertical THEN sl.min ELSE sl.max)

\* C22 (as claimed): on a Slider with an explicit step s, the value after
\* setValue and the value after a handleDrag while dragging is an integer
\* multiple of s, or min, or max; and a drag whose pointer maps to the raw
\* value v gives the value setValue(v) gives.
C22_StepQuantized ==
  [][ (IsSL /\ ExplicitStep) =>
        /\ lastOp'.op = "setValue" => OnStep(sl, sl'.value)
        /\ (lastOp'.op = "handleDrag" /\ sl.isDragging) =>
             /\ OnStep(sl, sl'.value)
             /\ sl'.value = SL_setValue(sl, RawValue).value ]_vars

\* The pointer of the call is strictly inside the Slider's bounds.
PointerInsideSlider ==
  /\ lastOp'.mx > SL_x /\ lastOp'.mx < SL_x + sl.width
  /\ lastOp'.my > SL_y /\ lastOp'.my < SL_y + sl.height

\* C23: the Slider's drag state machine.  isDragging is true after a call
\* exactly if the call is a handleMousePressed with the pointer strictly
\* inside the bounds, or isDragging was true and the call is not
\* handleMouseReleased; a handleDrag while isDragging is false leaves the
\* value and invokes nothing; a press inside the bounds sets the value
\* from the pointer and invokes a registered onChange once with it.
C23_DragMachine ==
  [][ IsSL =>
        /\ sl'.isDragging =
             (\/ lastOp'.op = "handleMousePressed" /\ PointerInsideSlider
              \/ sl.isDragging /\ lastOp'.op # "handleMouseReleased")
        /\ (lastOp'.op = "handleDrag" /\ ~sl.isDragging) =>
             sl'.value = sl.value /\ fired' = <<>>
        /\ (lastOp'.op = "handleMousePressed" /\ ~PointerInsideSlider) =>
             sl'.value = sl.value /\ fired' = <<>>
        /\ (lastOp'.op = "handleMousePressed" /\ PointerInsideSlider) =>
             /\ sl'.value = SL_dragValue(sl, lastOp'.mx, lastOp'.my)
             /\ sl.onChange # Null =>
                  fired' = <<[cb |-> sl.onChange, arg |-> sl'.value]>> ]_vars

\* C23 witness: a press inside the bounds has started a drag on a Slider
\* that was not being dragged, changed its value and invoked onChange.
C23_Witness ==
  /\ IsSL /\ lastOp.op = "handleMousePressed" /\ sl.isDragging
  /\ Len(fired) = 1 /\ fired[1].arg = sl.value
  /\ sl.value \notin {SL_configs[i].defaultValue : i \in DOMAIN SL_configs}

\* C25: the FilePicker keeps the selection's order.  When onSelect is
\* invoked for a selection of the files f1..fn, its list has n entries and
\* the i-th is the record loaded from fi, in whatever order the decodes
\* completed.
C25_SelectionOrder ==
  IsFP => \A i \in 1..Len(selections) :
    LET s == selections[i]
    IN (s.file.kind = "array" /\ s.calls # <<>>) =>
         \A c \in 1..Len(s.calls) :
           /\ DOMAIN s.calls[c].arg.items = DOMAIN s.file.items
           /\ \A j \in DOMAIN s.file.items :
                s.calls[c].arg.items[j] = Loaded(s.file.items[j].name)

\* C25 witness: onSelect has been invoked for a selection of two files
\* whose second file was decoded first.
C25_Witness ==
  /\ IsFP
  /\ \E i \in 1..Len(selections) :
       /\ selections[i].file.kind = "array"
       /\ selections[i].order = <<2, 1>>
       /\ Len(selections[i].calls) = 1

IsRB == widget = "RadioButton"
\* The square of the distance from the pointer of the call to the centre of
\* option i.
DistSqToOption(i) ==
  (lastOp'.mx - RB_x) * (lastOp'.mx - RB_x)
    + (lastOp'.my - (RB_y + i * 25)) * (lastOp'.my - (RB_y + i * 25))

\* C24: a RadioButton group of one or more options always has exactly one
\* valid selection: 0 <= selected < options.length and getSelected() is one
\* of the options.  A click nearer than 10 to the centre of option i selects
\* i and invokes a registered onChange once, with options[i]; a click at 10
\* or more from every centre leaves the selection and invokes nothing.
C24_OneValidSelection ==
  /\ [](IsRB => /\ rb.selected \in 0..(Len(rb.options) - 1)
                /\ \E i \in 1..Len(rb.options) : RB_getSelected(rb) = rb.options[i])
  /\ [][ (IsRB /\ lastOp'.op = "handleClick") =>
          /\ \A i \in 0..(Len(rb.options) - 1) :
               DistSqToOption(i) < 100 =>
                 /\ rb'.selected = i
                 /\ rb.onChange # Null =>
                      fired' = <<[cb |-> rb.onChange, arg |-> rb.options[i + 1]]>>
          /\ (\A i \in 0..(Len(rb.options) - 1) : DistSqToOption(i) >= 100) =>
               rb'.selected = rb.selected /\ fired' = <<>> ]_vars

\* C24 witness: a click inside the circle of the third option, off its
\* centre, has selected it and invoked onChange with it.
C24_Witness ==
  /\ IsRB /\ lastOp.op = "handleClick" /\ lastOp.mx # RB_x
  /\ rb.selected = 2
  /\ Len(fired) = 1 /\ fired[1].arg = "z"

IsGroup == widget = "TextWidgets"
\* The widgets of the group that have the focus.
Focused(g) == {k \in DOMAIN g : g[k].isFocused}

\* C27: focus is exclusive among text widgets of pairwise disjoint bounds
\* that all receive every click and every key: at most one widget is
\* focused in every state, and a key changes the text of no widget but the
\* focused one, so of at most one.
C27_FocusExclusive ==
  /\ [](IsGroup => Cardinality(Focused(group)) <= 1)
  /\ [][ (IsGroup /\ lastOp'.op = "handleKeyPress") =>
          /\ Cardinality({k \in DOMAIN group : group'[k].text # group[k].text}) <= 1
          /\ \A k \in DOMAIN group :
               group'[k].text # group[k].text => group[k].isFocused ]_vars

\* C27 witness: both the TextArea and the second InputBox hold text typed
\* into them, and a click has moved the focus to the first InputBox.
C27_Witness ==
  /\ IsGroup /\ lastOp.op = "handleClick"
  /\ group[1].text # <<>> /\ group[3].text # <<>> /\ ~group[1].isFocused
  /\ Focused(group) = {2}
====
